---- MODULE Spec2Model ----
(***************************************************************************)
(* Model of singlestore/http.py: the HTTP Cursor and Connection objects of *)
(* the SingleStore DB-API adapter.  One Connection, the cursors made from  *)
(* it by Connection.cursor(), and the HTTP server as the environment that  *)
(* answers each POST with a response.                                      *)
(***************************************************************************)
EXTENDS Integers, Sequences, FiniteSets, TLC

VARIABLES
    connection,   \* Cursor.connection, per cursor: "conn" or "None"
    _rows,        \* Cursor._rows, per cursor: sequence of converted rows
    description,  \* Cursor.description, per cursor: None or a list
    rowcount,     \* Cursor.rowcount, per cursor
    _sess,        \* Connection._sess: "Session" or "None"
    autocommit,   \* Connection.autocommit
    last,         \* observation: the last call, its result, error and requests
    hist,         \* observation: the run of fetchone calls after a query
    fetched,      \* observation, per cursor: rows returned by fetch operations
                  \* since the last successful execute
    thr           \* per thread of control inside Cursor.fetchone: its position

vars ==
    <<connection, _rows, description, rowcount, _sess, autocommit, last, hist,
      fetched, thr>>

(***************************************************************************)
(* Bounds of the model.                                                    *)
(***************************************************************************)
MaxRows == 2        \* rows in one server response
MaxAffected == 2    \* largest rowsAffected the server reports
MaxSize == 2        \* largest size argument given to fetchmany
MaxParams == 2      \* parameter sets in one executemany call

arraysize == 1000

Cursors == DOMAIN connection
RawVals == {"u", "v"}

(***************************************************************************)
(* Values.                                                                 *)
(***************************************************************************)
None == [kind |-> "None"]
List(s) == [kind |-> "list", items |-> s]
Row(t) == [kind |-> "row", val |-> t]
Bool(b) == [kind |-> "bool", val |-> b]
Lit(s) == [lit |-> s]
Str(s) == [chars |-> s]

NoErr == [kind |-> "ok"]
InterfaceError(code, msg) == [kind |-> "InterfaceError", code |-> code, msg |-> msg]
NotSupportedError(code, msg) == [kind |-> "NotSupportedError", code |-> code, msg |-> msg]
ClosedErr == InterfaceError(0, Lit("connection is closed"))
UnsupportedErr == NotSupportedError(0, Lit("operation not supported"))
StopIteration == [kind |-> "StopIteration"]
ValueError == [kind |-> "ValueError"]
IndexError == [kind |-> "IndexError"]
TransportError == [kind |-> "TransportError"]
PingErr == InterfaceError(2006, Lit("Could not connect to SingleStore database"))

Min(a, b) == IF a <= b THEN a ELSE b

(***************************************************************************)
(* Text: a string is a sequence of characters.                             *)
(***************************************************************************)
IsSpace(ch) == ch = " "
DigitVal(ch) == IF ch = "1" THEN 1 ELSE 0
IsDigit(ch) == ch = "1"

RECURSIVE lstrip(_)
lstrip(s) == IF s # <<>> /\ IsSpace(Head(s)) THEN lstrip(Tail(s)) ELSE s

RECURSIVE rstrip(_)
rstrip(s) ==
    IF s # <<>> /\ IsSpace(s[Len(s)]) THEN rstrip(SubSeq(s, 1, Len(s) - 1)) ELSE s

strip(s) == rstrip(lstrip(s))

\* str.split(): the maximal runs of non-whitespace characters
RECURSIVE split_ws(_, _, _)
split_ws(s, cur, out) ==
    IF s = <<>> THEN (IF cur = <<>> THEN out ELSE Append(out, cur))
    ELSE IF IsSpace(Head(s))
         THEN split_ws(Tail(s), <<>>, IF cur = <<>> THEN out ELSE Append(out, cur))
         ELSE split_ws(Tail(s), Append(cur, Head(s)), out)

\* index of the first ':' of s, 0 when there is none
RECURSIVE find_colon(_, _)
find_colon(s, i) ==
    IF i > Len(s) THEN 0 ELSE IF s[i] = ":" THEN i ELSE find_colon(s, i + 1)

\* int(token): the decimal value, defined only on tokens made of digits
IsIntToken(t) == t # <<>> /\ \A i \in 1..Len(t) : IsDigit(t[i])
RECURSIVE int_of(_)
int_of(t) == IF t = <<>> THEN 0 ELSE 10 * int_of(SubSeq(t, 1, Len(t) - 1)) + DigitVal(t[Len(t)])

\* the error execute raises for a response with status_code >= 400
http_error(res) ==
    IF res.text # <<>>
    THEN LET i == find_colon(res.text, 1) IN
         IF i > 0
         THEN LET code == SubSeq(res.text, 1, i - 1)
                  msg == SubSeq(res.text, i + 1, Len(res.text))
                  toks == split_ws(code, <<>>, <<>>)
              IN IF toks = <<>> THEN IndexError
                 ELSE IF ~IsIntToken(toks[Len(toks)]) THEN ValueError
                 ELSE InterfaceError(int_of(toks[Len(toks)]), Str(strip(msg)))
         ELSE InterfaceError(res.status_code, Str(strip(res.text)))
    ELSE InterfaceError(res.status_code, Lit("HTTP Error"))

(***************************************************************************)
(* Statements.  A statement is a sequence of tokens: a whitespace          *)
(* character or a maximal run of non-whitespace characters (a word).       *)
(***************************************************************************)
Queries ==
    { <<"select", " ", "1">>,
      <<" ", "Show", " ", "tables">>,
      <<"SELECT">>,
      <<"selectx", " ", "1">>,
      <<"insert", " ", "t">> }

lower(w) ==
    CASE w = "SELECT" -> "select"
      [] w = "Show" -> "show"
      [] OTHER -> w

sql_type_case_sensitive(query) ==
    LET q == lstrip(query) IN
    IF Len(q) >= 2 /\ q[1] \in {"select", "show"} /\ IsSpace(q[2])
    THEN "query" ELSE "exec"

\* re.match(r'^\s*(select|show)\s+', query, flags=re.I)
sql_type(query) ==
    LET q == lstrip(query) IN
    IF Len(q) >= 2 /\ lower(q[1]) \in {"select", "show"} /\ IsSpace(q[2])
    THEN "query" ELSE "exec"

(***************************************************************************)
(* The server's responses.  A result set is well formed: every row has one *)
(* value per column.                                                       *)
(***************************************************************************)
Statuses == {400, 500}
Bodies ==
    { <<>>, <<"x">>, <<" ", "x", " ">>, <<"1", ":", "x">>,
      <<"x", " ", "1", "1", ":", " ", "x">>, <<":", "x">>, <<"x", ":", "x">> }

SeqsUpTo(S, n) == UNION {[1..k -> S] : k \in 0..n}

\* the column lists of a response: no column, one column, two columns
ColumnLists ==
    { <<>>,
      <<[name |-> "a", dataType |-> "t1"]>>,
      <<[name |-> "a", dataType |-> "t1"],
        [name |-> "b", dataType |-> "t2", nullable |-> TRUE]>> }

ResultSets ==
    {[rows |-> rs] : rs \in SeqsUpTo({<<>>}, MaxRows)}
        \cup UNION {{[columns |-> cols, rows |-> rs] :
                        rs \in SeqsUpTo([1..Len(cols) -> RawVals], MaxRows)} :
                    cols \in ColumnLists}

ErrorResponses ==
    {[status_code |-> s, text |-> b, json |-> None] : s \in Statuses, b \in Bodies}

Responses(path) ==
    ErrorResponses \cup
    IF path = "query/tuples"
    THEN {[status_code |-> 200, text |-> <<>>, json |-> [results |-> <<r>>]] :
              r \in ResultSets}
    ELSE {[status_code |-> 200, text |-> <<>>, json |-> [rowsAffected |-> n]] :
              n \in 0..MaxAffected}

(***************************************************************************)
(* External collaborators: the type resolver and the converter registry.   *)
(***************************************************************************)
get_name(dataType) == [type_name |-> dataType]
convert(col_type, y) == [conv |-> col_type, raw |-> y]

\* dict.get(key, default)
get(d, key, default) == IF key \in DOMAIN d THEN d[key] ELSE default

(***************************************************************************)
(* Cursor.execute, after the request has been answered.  A cursor's data   *)
(* is the record st = [_rows, description, rowcount].                      *)
(***************************************************************************)
descriptor(item) ==
    << item.name, get_name(item.dataType), None, None, None, None,
       get(item, "nullable", FALSE), 0, 0 >>

\* tuple(x(y) for x, y in zip(convs, row))
convert_row(convs, row) ==
    [j \in 1..Min(Len(convs), Len(row)) |-> convert(convs[j], row[j])]

query_rowcount_zero(rows) == 0
query_rowcount(rows) == Len(rows)

load_result(type, out) ==
    IF type = "query"
    THEN LET cols == get(out.results[1], "columns", <<>>)
             convs == [i \in 1..Len(cols) |-> get_name(cols[i].dataType)]
             rows == [i \in 1..Len(out.results[1].rows) |->
                         convert_row(convs, out.results[1].rows[i])]
         IN [_rows |-> rows,
             description |-> List([i \in 1..Len(cols) |-> descriptor(cols[i])]),
             rowcount |-> query_rowcount(rows)]
    ELSE [_rows |-> <<>>, description |-> None, rowcount |-> out.rowsAffected]

handle_response_reset_first(st, type, res) ==
    IF res.status_code >= 400
    THEN [st |-> [_rows |-> <<>>, description |-> None, rowcount |-> 0],
          err |-> http_error(res)]
    ELSE [st |-> load_result(type, res.json), err |-> NoErr]

handle_response_keep_rows(st, type, res) ==
    IF res.status_code >= 400
    THEN [st |-> st, err |-> http_error(res)]
    ELSE [st |-> IF type = "query" THEN load_result(type, res.json)
                 ELSE [st EXCEPT !.rowcount = res.json.rowsAffected],
          err |-> NoErr]

handle_response(st, type, res) ==
    IF res.status_code >= 400
    THEN [st |-> st, err |-> http_error(res)]
    ELSE [st |-> load_result(type, res.json), err |-> NoErr]

(***************************************************************************)
(* Connection._post and Cursor._post: the request issued, or the error.    *)
(***************************************************************************)
Connection_post_unchecked(sess, path) ==
    [err |-> NoErr, reqs |-> <<[method |-> "POST", path |-> path]>>]

Connection_post(sess, path) ==
    IF sess = "None"
    THEN [err |-> ClosedErr, reqs |-> <<>>]
    ELSE [err |-> NoErr, reqs |-> <<[method |-> "POST", path |-> path]>>]

Cursor_post(conn, sess, path) ==
    IF conn = "None"
    THEN [err |-> ClosedErr, reqs |-> <<>>]
    ELSE Connection_post(sess, path)

(***************************************************************************)
(* The fetch operations on a cursor's data.                                *)
(***************************************************************************)
fetchone_lifo(st) ==
    IF st._rows # <<>>
    THEN [ret |-> Row(st._rows[Len(st._rows)]),
          st |-> [st EXCEPT !._rows = SubSeq(st._rows, 1, Len(st._rows) - 1)]]
    ELSE [ret |-> None, st |-> [st EXCEPT !.description = None]]

fetchone_counting(st) ==
    IF st._rows # <<>>
    THEN [ret |-> Row(Head(st._rows)),
          st |-> [st EXCEPT !._rows = Tail(st._rows), !.rowcount = st.rowcount - 1]]
    ELSE [ret |-> None, st |-> [st EXCEPT !.description = None]]

fetchone_eager_clear(st) ==
    IF st._rows # <<>>
    THEN [ret |-> Row(Head(st._rows)),
          st |-> [st EXCEPT !._rows = Tail(st._rows),
                            !.description = IF Tail(st._rows) = <<>> THEN None ELSE @]]
    ELSE [ret |-> None, st |-> [st EXCEPT !.description = None]]

fetchone_clear_on_pop(st) ==
    IF st._rows # <<>>
    THEN [ret |-> Row(Head(st._rows)),
          st |-> [st EXCEPT !._rows = Tail(st._rows), !.description = None]]
    ELSE [ret |-> None, st |-> [st EXCEPT !.description = None]]

fetchone(st) ==
    IF st._rows # <<>>
    THEN [ret |-> Row(Head(st._rows)), st |-> [st EXCEPT !._rows = Tail(st._rows)]]
    ELSE [ret |-> None, st |-> [st EXCEPT !.description = None]]

\* the loop of fetchmany: size is tested on every pass and never changed
RECURSIVE fetchmany_loop(_, _, _)
fetchmany_loop(size, st, out) ==
    IF size > 0
    THEN LET r == fetchone(st) IN
         IF r.ret = None THEN [ret |-> List(out), st |-> r.st]
         ELSE fetchmany_loop(size, r.st, Append(out, r.ret.val))
    ELSE [ret |-> List(out), st |-> st]

\* size is [given |-> FALSE] for an omitted argument, else [given |-> TRUE, n |-> int]
fetchmany(st, size) ==
    LET sz == IF ~size.given \/ size.n = 0 \/ size.n <= 0 THEN arraysize ELSE size.n
    IN fetchmany_loop(sz, st, <<>>)

RECURSIVE fetchall_loop(_, _)
fetchall_loop(st, out) ==
    LET r == fetchone(st) IN
    IF r.ret = None THEN [ret |-> List(out), st |-> r.st]
    ELSE fetchall_loop(r.st, Append(out, r.ret.val))

fetchall_peek(st) == [ret |-> List(st._rows), st |-> [st EXCEPT !.description = None]]

fetchall(st) == fetchall_loop(st, <<>>)

\* a complete iteration over iter(self._rows): the list itself is read
iterate_by_fetch(st) == fetchall(st)

iterate(st) == [ret |-> List(st._rows), st |-> st]

Sizes == {[given |-> FALSE]} \cup {[given |-> TRUE, n |-> k] : k \in (-1)..MaxSize}

(***************************************************************************)
(* Cursor.executemany.  A few responses stand for the server's answers to  *)
(* the calls of one executemany.                                           *)
(***************************************************************************)
SmallResponses ==
    [path \in {"query/tuples", "exec"} |->
        {[status_code |-> 500, text |-> <<>>, json |-> None]} \cup
        IF path = "query/tuples"
        THEN {[status_code |-> 200, text |-> <<>>, json |-> [results |-> <<r>>]] :
                 r \in {[columns |-> <<[name |-> "a", dataType |-> "t1"]>>, rows |-> rs] :
                           rs \in {<< <<"u">>, <<"v">> >>, << <<"v">> >>}}}
        ELSE {[status_code |-> 200, text |-> <<>>, json |-> [rowsAffected |-> n]] :
                 n \in {1, 2}}]

Params == {"p", "q"}

\* param_seq: omitted, or a sequence of parameter sets
ParamSeqs ==
    {[given |-> FALSE]} \cup {[given |-> TRUE, seq |-> s] : s \in SeqsUpTo(Params, MaxParams)}

\* one execute call as a function: the cursor data, the error and the requests
execute_call(st, conn, sess, type, res) ==
    LET path == IF type = "query" THEN "query/tuples" ELSE "exec" IN
    IF conn = "None"
    THEN [st |-> st, err |-> ClosedErr, reqs |-> <<>>]
    ELSE LET p == Cursor_post(conn, sess, path) IN
         IF p.err # NoErr
         THEN [st |-> st, err |-> p.err, reqs |-> p.reqs]
         ELSE LET h == handle_response(st, type, res) IN
              [st |-> h.st, err |-> h.err, reqs |-> p.reqs]

RECURSIVE run_calls_swallow(_, _, _, _, _, _, _)
run_calls_swallow(st, conn, sess, type, calls, resps, done) ==
    IF calls = <<>>
    THEN [st |-> st, err |-> done.err, reqs |-> done.reqs, calls |-> done.calls,
          ok |-> done.ok]
    ELSE LET r == execute_call(st, conn, sess, type, Head(resps))
             log == [reqs |-> done.reqs \o r.reqs,
                     calls |-> Append(done.calls, Head(calls)),
                     ok |-> done.ok + (IF r.err = NoErr THEN 1 ELSE 0),
                     err |-> IF r.err # NoErr THEN r.err
                             ELSE IF "err" \in DOMAIN done THEN done.err ELSE NoErr]
         IN run_calls_swallow(r.st, conn, sess, type, Tail(calls), Tail(resps), log)

\* the execute calls of one executemany, in order, up to the first that raises;
\* calls[i] is the params argument of the i-th call, resps[i] its response
RECURSIVE run_calls(_, _, _, _, _, _, _)
run_calls(st, conn, sess, type, calls, resps, done) ==
    IF calls = <<>>
    THEN [st |-> st, err |-> NoErr, reqs |-> done.reqs, calls |-> done.calls,
          ok |-> done.ok]
    ELSE LET r == execute_call(st, conn, sess, type, Head(resps))
             log == [reqs |-> done.reqs \o r.reqs,
                     calls |-> Append(done.calls, Head(calls)),
                     ok |-> done.ok + (IF r.err = NoErr THEN 1 ELSE 0)]
         IN IF r.err # NoErr
            THEN [st |-> r.st, err |-> r.err, reqs |-> log.reqs, calls |-> log.calls,
                  ok |-> log.ok]
            ELSE run_calls(r.st, conn, sess, type, Tail(calls), Tail(resps), log)

\* `if param_seq:` is false for an omitted and for an empty param_seq
executemany_calls(ps) ==
    IF ps.given /\ Len(ps.seq) > 0
    THEN [i \in 1..Len(ps.seq) |-> [params |-> [val |-> ps.seq[i]]]]
    ELSE <<[params |-> None]>>

(***************************************************************************)
(* Cursor.rownumber.                                                       *)
(***************************************************************************)
rownumber(st) == st.rowcount - Len(st._rows)

(***************************************************************************)
(* Cursor.close on the cursors' Connection references.                     *)
(***************************************************************************)
close_cursor_all(conns, c) == [d \in DOMAIN conns |-> "None"]

close_cursor(conns, c) ==
    IF conns[c] # "None" THEN [conns EXCEPT ![c] = "None"] ELSE conns

(***************************************************************************)
(* Connection.commit and Connection.rollback.                              *)
(***************************************************************************)
commit_always_ok(ac) == NoErr
commit_result(ac) == IF ac THEN NoErr ELSE UnsupportedErr

rollback_result(ac) == IF ac THEN NoErr ELSE UnsupportedErr

(***************************************************************************)
(* Connection.is_connected, Cursor.is_connected and Connection.ping.  The  *)
(* probe is answered with a response or fails in the transport.            *)
(***************************************************************************)
PingResponses ==
    {[failed |-> TRUE]} \cup
    {[failed |-> FALSE, status_code |-> s, text |-> t] :
        s \in {200, 400, 500}, t \in {"pong", "down"}}

PingRequest == [method |-> "GET", path |-> "/ping"]

is_connected_unchecked(sess, res) ==
    IF res.failed
    THEN [ret |-> None, err |-> TransportError, reqs |-> <<PingRequest>>]
    ELSE [ret |-> Bool(res.status_code <= 400 /\ res.text = "pong"),
          err |-> NoErr, reqs |-> <<PingRequest>>]

is_connected(sess, res) ==
    IF sess = "None"
    THEN [ret |-> Bool(FALSE), err |-> NoErr, reqs |-> <<>>]
    ELSE IF res.failed
         THEN [ret |-> None, err |-> TransportError, reqs |-> <<PingRequest>>]
         ELSE [ret |-> Bool(res.status_code <= 400 /\ res.text = "pong"),
               err |-> NoErr, reqs |-> <<PingRequest>>]

cursor_is_connected(conn, sess, res) ==
    IF conn = "None"
    THEN [ret |-> Bool(FALSE), err |-> NoErr, reqs |-> <<>>]
    ELSE is_connected(sess, res)

\* reconnect is accepted and never read
ping(sess, reconnect, res) ==
    LET r == is_connected(sess, res) IN
    IF r.err # NoErr THEN r
    ELSE IF ~r.ret.val THEN [ret |-> None, err |-> PingErr, reqs |-> r.reqs]
    ELSE [ret |-> None, err |-> NoErr, reqs |-> r.reqs]

(***************************************************************************)
(* State after construction: connect(), then Connection.cursor() once per  *)
(* cursor.                                                                 *)
(***************************************************************************)
NoHist == [cur |-> "", served |-> <<>>, got |-> <<>>, live |-> FALSE]

Call(op, c, arg, ret, err, reqs, res) ==
    [op |-> op, cur |-> c, arg |-> arg, ret |-> ret, err |-> err,
     reqs |-> reqs, res |-> res]

InitWith(cs) ==
    /\ connection = [c \in cs |-> "conn"]
    /\ _rows = [c \in cs |-> <<>>]
    /\ description = [c \in cs |-> None]
    /\ rowcount = [c \in cs |-> 0]
    /\ _sess = "Session"
    /\ autocommit = TRUE
    /\ last = Call("init", "", None, None, NoErr, <<>>, None)
    /\ hist = NoHist
    /\ fetched = [c \in cs |-> 0]

Init == InitWith({"c1"}) /\ thr = <<>>

data(c) == [_rows |-> _rows[c], description |-> description[c], rowcount |-> rowcount[c]]

Store(c, st) ==
    /\ _rows' = [_rows EXCEPT ![c] = st._rows]
    /\ description' = [description EXCEPT ![c] = st.description]
    /\ rowcount' = [rowcount EXCEPT ![c] = st.rowcount]

(***************************************************************************)
(* Cursor operations.                                                      *)
(***************************************************************************)
\* one execute call for a statement of the given type; arg is what the call
\* record keeps of the arguments, resps the responses the server may give
ExecuteAs(c, type, arg, resps) ==
    LET path == IF type = "query" THEN "query/tuples" ELSE "exec" IN
    IF connection[c] = "None"
    THEN /\ last' = Call("execute", c, arg, None, ClosedErr, <<>>, None)
         /\ hist' = NoHist
         /\ UNCHANGED <<connection, _rows, description, rowcount, _sess, autocommit,
                        fetched, thr>>
    ELSE LET p == Cursor_post(connection[c], _sess, path) IN
         IF p.err # NoErr
         THEN /\ last' = Call("execute", c, arg, None, p.err, p.reqs, None)
              /\ hist' = NoHist
              /\ UNCHANGED <<connection, _rows, description, rowcount, _sess,
                             autocommit, fetched, thr>>
         ELSE \E res \in resps[path] :
                  LET h == handle_response(data(c), type, res) IN
                  /\ Store(c, h.st)
                  /\ last' = Call("execute", c, arg, None, h.err, p.reqs, res)
                  /\ hist' = IF h.err = NoErr /\ type = "query"
                             THEN [cur |-> c, served |-> res.json.results[1].rows,
                                   got |-> <<>>, live |-> TRUE]
                             ELSE NoHist
                  /\ fetched' = IF h.err = NoErr THEN [fetched EXCEPT ![c] = 0]
                                ELSE fetched
                  /\ UNCHANGED <<connection, _sess, autocommit, thr>>

AllResponses == [path \in {"query/tuples", "exec"} |-> Responses(path)]

execute(c) ==
    \E type \in {sql_type(query) : query \in Queries} :
        ExecuteAs(c, type, [sql_type |-> type], AllResponses)

Cursor_fetchone(c) ==
    LET r == fetchone(data(c)) IN
    /\ Store(c, r.st)
    /\ last' = Call("fetchone", c, None, r.ret, NoErr, <<>>, None)
    /\ hist' = IF hist.live /\ hist.cur = c /\ Len(hist.got) <= Len(hist.served)
               THEN [hist EXCEPT !.got = Append(hist.got, r.ret)]
               ELSE NoHist
    /\ fetched' = [fetched EXCEPT ![c] = @ + (IF r.ret = None THEN 0 ELSE 1)]
    /\ UNCHANGED <<connection, _sess, autocommit, thr>>

Cursor_fetchmany(c) ==
    \E size \in Sizes :
        LET r == fetchmany(data(c), size) IN
        /\ Store(c, r.st)
        /\ last' = Call("fetchmany", c, size, r.ret, NoErr, <<>>, None)
        /\ hist' = NoHist
        /\ fetched' = [fetched EXCEPT ![c] = @ + Len(r.ret.items)]
        /\ UNCHANGED <<connection, _sess, autocommit, thr>>

Cursor_fetchall(c) ==
    LET r == fetchall(data(c)) IN
    /\ Store(c, r.st)
    /\ last' = Call("fetchall", c, None, r.ret, NoErr, <<>>, None)
    /\ hist' = NoHist
    /\ fetched' = [fetched EXCEPT ![c] = @ + Len(r.ret.items)]
    /\ UNCHANGED <<connection, _sess, autocommit, thr>>

Cursor_next(c) ==
    LET r == fetchone(data(c)) IN
    /\ Store(c, r.st)
    /\ last' = Call("next", c, None, r.ret,
                    IF r.ret = None THEN StopIteration ELSE NoErr, <<>>, None)
    /\ hist' = NoHist
    /\ fetched' = [fetched EXCEPT ![c] = @ + (IF r.ret = None THEN 0 ELSE 1)]
    /\ UNCHANGED <<connection, _sess, autocommit, thr>>

\* iter(self._rows), run to its end by the caller
Cursor_iter(c) ==
    LET r == iterate(data(c)) IN
    /\ Store(c, r.st)
    /\ last' = Call("iter", c, None, r.ret, NoErr, <<>>, None)
    /\ hist' = NoHist
    /\ UNCHANGED <<connection, _sess, autocommit, fetched, thr>>

Cursor_close(c) ==
    /\ connection' = close_cursor(connection, c)
    /\ last' = Call("close", c, None, None, NoErr, <<>>, None)
    /\ hist' = NoHist
    /\ UNCHANGED <<_rows, description, rowcount, _sess, autocommit, fetched, thr>>

(***************************************************************************)
(* Connection operations.                                                  *)
(***************************************************************************)
Connection_close ==
    /\ _sess' = "None"
    /\ last' = Call("Connection.close", "", None, None, NoErr, <<>>, None)
    /\ hist' = NoHist
    /\ UNCHANGED <<connection, _rows, description, rowcount, autocommit, fetched, thr>>

commit ==
    /\ last' = Call("commit", "", None, None, commit_result(autocommit), <<>>, None)
    /\ hist' = NoHist
    /\ UNCHANGED <<connection, _rows, description, rowcount, _sess, autocommit,
                   fetched, thr>>

rollback ==
    /\ last' = Call("rollback", "", None, None, rollback_result(autocommit), <<>>, None)
    /\ hist' = NoHist
    /\ UNCHANGED <<connection, _rows, description, rowcount, _sess, autocommit,
                   fetched, thr>>

\* the caller assigns the public attribute Connection.autocommit
set_autocommit ==
    \E b \in BOOLEAN :
        /\ autocommit' = b
        /\ last' = Call("set_autocommit", "", [value |-> b], None, NoErr, <<>>, None)
        /\ hist' = NoHist
        /\ UNCHANGED <<connection, _rows, description, rowcount, _sess, fetched, thr>>

Next ==
    \/ \E c \in Cursors : execute(c)
    \/ \E c \in Cursors : Cursor_fetchone(c)
    \/ \E c \in Cursors : Cursor_fetchmany(c)
    \/ \E c \in Cursors : Cursor_fetchall(c)
    \/ \E c \in Cursors : Cursor_next(c)
    \/ \E c \in Cursors : Cursor_iter(c)
    \/ \E c \in Cursors : Cursor_close(c)
    \/ Connection_close
    \/ commit
    \/ rollback
    \/ set_autocommit

Spec == Init /\ [][Next]_vars

(***************************************************************************)
(* The cursor with executemany, the server answering from SmallResponses.  *)
(***************************************************************************)
execute_small(c) ==
    \E type \in {sql_type(query) : query \in Queries} :
        ExecuteAs(c, type, [sql_type |-> type], SmallResponses)

\* one executemany call with param_seq drawn from pss
ExecutemanyOf(c, pss) ==
    \E type \in {sql_type(query) : query \in Queries}, ps \in pss :
        LET path == IF type = "query" THEN "query/tuples" ELSE "exec"
            calls == executemany_calls(ps)
        IN \E resps \in [1..Len(calls) -> SmallResponses[path]] :
               LET r == run_calls(data(c), connection[c], _sess, type, calls, resps,
                                  [reqs |-> <<>>, calls |-> <<>>, ok |-> 0])
               IN /\ Store(c, r.st)
                  /\ last' = [op |-> "executemany", cur |-> c,
                              arg |-> [sql_type |-> type, param_seq |-> ps],
                              ret |-> None, err |-> r.err, reqs |-> r.reqs,
                              res |-> resps, calls |-> r.calls]
                  /\ hist' = NoHist
                  /\ fetched' = IF r.ok > 0 THEN [fetched EXCEPT ![c] = 0] ELSE fetched
                  /\ UNCHANGED <<connection, _sess, autocommit, thr>>

executemany(c) == ExecutemanyOf(c, ParamSeqs)

NextMany ==
    \/ \E c \in Cursors : executemany(c)
    \/ \E c \in Cursors : execute_small(c)
    \/ \E c \in Cursors : Cursor_fetchone(c)
    \/ \E c \in Cursors : Cursor_fetchmany(c)
    \/ \E c \in Cursors : Cursor_fetchall(c)
    \/ \E c \in Cursors : Cursor_next(c)
    \/ \E c \in Cursors : Cursor_iter(c)
    \/ \E c \in Cursors : Cursor_close(c)
    \/ Connection_close

SpecMany == Init /\ [][NextMany]_vars

(***************************************************************************)
(* The cursor with the statement of each execute call on record.           *)
(***************************************************************************)
(***************************************************************************)
(* executemany next to execute and the two close operations only.          *)
(***************************************************************************)
\* param_seq with one value for every parameter set
SameParamSeqs == {ps \in ParamSeqs : ps.given => \A i \in DOMAIN ps.seq : ps.seq[i] = "p"}

NextBatch ==
    \/ \E c \in Cursors : ExecutemanyOf(c, SameParamSeqs)
    \/ \E c \in Cursors : execute_small(c)
    \/ \E c \in Cursors : Cursor_close(c)
    \/ Connection_close

SpecBatch == Init /\ [][NextBatch]_vars

(***************************************************************************)
(* Every operation of a cursor: execute, executemany, the fetch            *)
(* operations, next, iteration and close.                                  *)
(***************************************************************************)
NextCursor ==
    \/ \E c \in Cursors : execute_small(c)
    \/ \E c \in Cursors : ExecutemanyOf(c, SameParamSeqs)
    \/ \E c \in Cursors : Cursor_fetchone(c)
    \/ \E c \in Cursors : Cursor_fetchmany(c)
    \/ \E c \in Cursors : Cursor_fetchall(c)
    \/ \E c \in Cursors : Cursor_next(c)
    \/ \E c \in Cursors : Cursor_iter(c)
    \/ \E c \in Cursors : Cursor_close(c)
    \/ Connection_close

SpecCursor == Init /\ [][NextCursor]_vars

execute_query(c) ==
    \E query \in Queries :
        ExecuteAs(c, sql_type(query), [sql_type |-> sql_type(query), query |-> query],
                  SmallResponses)

NextDispatch ==
    \/ \E c \in Cursors : execute_query(c)
    \/ \E c \in Cursors : Cursor_fetchone(c)
    \/ \E c \in Cursors : Cursor_fetchmany(c)
    \/ \E c \in Cursors : Cursor_fetchall(c)
    \/ \E c \in Cursors : Cursor_next(c)
    \/ \E c \in Cursors : Cursor_iter(c)
    \/ \E c \in Cursors : Cursor_close(c)
    \/ Connection_close

SpecDispatch == Init /\ [][NextDispatch]_vars

(***************************************************************************)
(* The cursor and the Connection with the connectivity checks.             *)
(***************************************************************************)
Connection_is_connected ==
    \E res \in PingResponses :
        LET r == is_connected(_sess, res) IN
        /\ last' = Call("Connection.is_connected", "", None, r.ret, r.err, r.reqs, None)
        /\ hist' = NoHist
        /\ UNCHANGED <<connection, _rows, description, rowcount, _sess, autocommit,
                       fetched, thr>>

Cursor_is_connected(c) ==
    \E res \in PingResponses :
        LET r == cursor_is_connected(connection[c], _sess, res) IN
        /\ last' = Call("is_connected", c, None, r.ret, r.err, r.reqs, None)
        /\ hist' = NoHist
        /\ UNCHANGED <<connection, _rows, description, rowcount, _sess, autocommit,
                       fetched, thr>>

Connection_ping ==
    \E reconnect \in BOOLEAN, res \in PingResponses :
        LET r == ping(_sess, reconnect, res) IN
        /\ last' = Call("ping", "", [reconnect |-> reconnect], r.ret, r.err, r.reqs, None)
        /\ hist' = NoHist
        /\ UNCHANGED <<connection, _rows, description, rowcount, _sess, autocommit,
                       fetched, thr>>

NextPing ==
    \/ \E c \in Cursors : execute_small(c)
    \/ \E c \in Cursors : Cursor_fetchone(c)
    \/ \E c \in Cursors : Cursor_fetchall(c)
    \/ \E c \in Cursors : Cursor_close(c)
    \/ Connection_close
    \/ commit
    \/ rollback
    \/ set_autocommit
    \/ Connection_is_connected
    \/ \E c \in Cursors : Cursor_is_connected(c)
    \/ Connection_ping

SpecPing == Init /\ [][NextPing]_vars

(***************************************************************************)
(* Two cursors made from the same Connection.                              *)
(***************************************************************************)
InitShared == InitWith({"c1", "c2"}) /\ thr = <<>>

NextShared ==
    \/ \E c \in Cursors : execute_small(c)
    \/ \E c \in Cursors : Cursor_fetchone(c)
    \/ \E c \in Cursors : Cursor_fetchall(c)
    \/ \E c \in Cursors : Cursor_close(c)
    \/ Connection_close

SpecShared == InitShared /\ [][NextShared]_vars

(***************************************************************************)
(* Cursor.fetchone run by several threads of control on one cursor.  The   *)
(* test `if self._rows` and the call `self._rows.pop(0)` are two steps; no *)
(* lock is taken between them.                                             *)
(***************************************************************************)
Threads == {"t1", "t2"}

IdleThread == [pc |-> "idle", cur |-> "", seen |-> 0, ret |-> None, err |-> NoErr]

\* `if self._rows:`
fetchone_test(st) == st._rows # <<>>

fetchone_pop_guarded(st) ==
    IF st._rows = <<>>
    THEN [ret |-> None, err |-> NoErr, st |-> [st EXCEPT !.description = None]]
    ELSE [ret |-> Row(Head(st._rows)), err |-> NoErr,
          st |-> [st EXCEPT !._rows = Tail(st._rows)]]

\* `return self._rows.pop(0)`: list.pop raises IndexError on an empty list
fetchone_pop(st) ==
    IF st._rows = <<>>
    THEN [ret |-> None, err |-> IndexError, st |-> st]
    ELSE [ret |-> Row(Head(st._rows)), err |-> NoErr,
          st |-> [st EXCEPT !._rows = Tail(st._rows)]]

InitThreads == InitWith({"c1"}) /\ thr = [t \in Threads |-> IdleThread]

\* a statement is executed while no thread is inside fetchone
thread_execute(c) ==
    /\ \A t \in Threads : thr[t].pc \in {"idle", "done"}
    /\ execute_small(c)

thread_call(t) ==
    \E c \in Cursors :
        /\ thr[t].pc \in {"idle", "done"}
        /\ thr' = [thr EXCEPT ![t] = [IdleThread EXCEPT !.pc = "test", !.cur = c]]
        /\ UNCHANGED <<connection, _rows, description, rowcount, _sess, autocommit,
                       last, hist, fetched>>

thread_test(t) ==
    /\ thr[t].pc = "test"
    /\ thr' = [thr EXCEPT ![t].pc = IF fetchone_test(data(thr[t].cur))
                                    THEN "pop" ELSE "clear",
                          ![t].seen = Len(_rows[thr[t].cur])]
    /\ UNCHANGED <<connection, _rows, description, rowcount, _sess, autocommit,
                   last, hist, fetched>>

thread_pop(t) ==
    /\ thr[t].pc = "pop"
    /\ LET r == fetchone_pop(data(thr[t].cur)) IN
       /\ Store(thr[t].cur, r.st)
       /\ thr' = [thr EXCEPT ![t].pc = "done", ![t].ret = r.ret, ![t].err = r.err]
       /\ fetched' = [fetched EXCEPT ![thr[t].cur] = @ + (IF r.err = NoErr THEN 1 ELSE 0)]
    /\ UNCHANGED <<connection, _sess, autocommit, last, hist>>

\* `self.description = None; return None`
thread_clear(t) ==
    /\ thr[t].pc = "clear"
    /\ description' = [description EXCEPT ![thr[t].cur] = None]
    /\ thr' = [thr EXCEPT ![t].pc = "done", ![t].ret = None, ![t].err = NoErr]
    /\ UNCHANGED <<connection, _rows, rowcount, _sess, autocommit, last, hist, fetched>>

NextThreads ==
    \/ \E c \in Cursors : thread_execute(c)
    \/ \E t \in Threads : thread_call(t)
    \/ \E t \in Threads : thread_test(t)
    \/ \E t \in Threads : thread_pop(t)
    \/ \E t \in Threads : thread_clear(t)

SpecThreads == InitThreads /\ [][NextThreads]_vars

(***************************************************************************)
(* Properties.  A step is recognised by the call it records in last'.      *)
(***************************************************************************)
IsCall(op, c) == last'.op = op /\ last'.cur = c

OkQuery(c) ==
    /\ IsCall("execute", c)
    /\ last'.err = NoErr
    /\ last'.arg.sql_type = "query"

\* C1: with r rows buffered and n >= 1, fetchmany(n) returns exactly the
\* first min(n, r) buffered rows in order and leaves the other rows buffered.
C1_FetchmanyReturnsMin ==
    [][\A c \in Cursors :
          (IsCall("fetchmany", c) /\ last'.arg.given /\ last'.arg.n >= 1) =>
              LET k == Min(last'.arg.n, Len(_rows[c])) IN
              /\ last'.ret = List(SubSeq(_rows[c], 1, k))
              /\ _rows'[c] = SubSeq(_rows[c], k + 1, Len(_rows[c]))]_vars

\* C2: a fetchone, fetchmany or fetchall call on a closed cursor fails with
\* the connection-closed error.
C2_FetchOnClosedCursorFails ==
    \A c \in Cursors :
        (last.op \in {"fetchone", "fetchmany", "fetchall"} /\ last.cur = c
            /\ connection[c] = "None") => last.err = ClosedErr

\* C3: execute on a closed cursor, or on a bound cursor whose Connection is
\* closed, fails with the connection-closed error, issues no request and
\* leaves description, row buffer and rowcount unchanged.
C3_ExecuteOnClosedFails ==
    [][\A c \in Cursors :
          (IsCall("execute", c) /\ (connection[c] = "None" \/ _sess = "None")) =>
              /\ last'.err = ClosedErr
              /\ last'.reqs = <<>>
              /\ description'[c] = description[c]
              /\ _rows'[c] = _rows[c]
              /\ rowcount'[c] = rowcount[c]]_vars

C3_Witness ==
    \E c \in Cursors :
        /\ last.op = "execute" /\ last.cur = c /\ last.err = ClosedErr
        /\ connection[c] = "conn" /\ _sess = "None"
        /\ _rows[c] # <<>> /\ description[c] # None

\* C4: after Connection.close(), commit() and rollback() fail with the
\* connection-closed error, whatever autocommit is.
C4_CommitOnClosedFails ==
    (last.op \in {"commit", "rollback"} /\ _sess = "None") => last.err = ClosedErr

\* C5: on an open Connection commit() and rollback() issue no request and
\* change no Connection state; they succeed when autocommit is true and fail
\* with the unsupported-operation error when it is false.
C5_CommitRollbackOpen ==
    [][(last'.op \in {"commit", "rollback"} /\ _sess = "Session") =>
          /\ last'.reqs = <<>>
          /\ UNCHANGED <<_sess, autocommit>>
          /\ autocommit => last'.err = NoErr
          /\ ~autocommit => last'.err = UnsupportedErr]_vars

C5_Witness ==
    /\ last.op = "commit" /\ _sess = "Session"
    /\ ~autocommit /\ last.err = UnsupportedErr

\* C6: an execute answered with status >= 400 raises an error and leaves
\* description, row buffer and rowcount as they were before the call.
C6_FailedExecuteKeepsState ==
    [][\A c \in Cursors :
          (IsCall("execute", c) /\ last'.res # None /\ last'.res.status_code >= 400) =>
              /\ last'.err # NoErr
              /\ description'[c] = description[c]
              /\ _rows'[c] = _rows[c]
              /\ rowcount'[c] = rowcount[c]]_vars

C6_Witness ==
    \E c \in Cursors :
        /\ last.op = "execute" /\ last.cur = c
        /\ last.res # None /\ last.res.status_code >= 400
        /\ Len(_rows[c]) = 1 /\ rowcount[c] = 2 /\ description[c] # None

\* C7: the fetchone calls made right after a successful query that returned
\* N rows return the server's rows in order, each once, and the N+1-th
\* returns the sentinel.
C7_FetchoneRun ==
    hist.live =>
        /\ Len(hist.got) <= Len(hist.served) + 1
        /\ \A i \in 1..Len(hist.got) :
              IF i <= Len(hist.served)
              THEN /\ hist.got[i].kind = "row"
                   /\ Len(hist.got[i].val) = Len(hist.served[i])
                   /\ \A j \in 1..Len(hist.served[i]) :
                          hist.got[i].val[j].raw = hist.served[i][j]
              ELSE hist.got[i] = None

C7_Witness ==
    /\ hist.live
    /\ Len(hist.served) = 2 /\ hist.served[1] # hist.served[2]
    /\ Len(hist.got) = 3 /\ hist.got[3] = None

\* C8: a drained buffer stays empty until the next successful query-type
\* execute, fetchone then returns the sentinel and fetchmany and fetchall an
\* empty sequence; fetchall returns all remaining rows and drains the buffer.
C8_DrainedStaysEmpty ==
    [][\A c \in Cursors :
          /\ (_rows[c] = <<>> /\ ~OkQuery(c)) =>
                /\ _rows'[c] = <<>>
                /\ IsCall("fetchone", c) => last'.ret = None
                /\ IsCall("fetchmany", c) => last'.ret = List(<<>>)
                /\ IsCall("fetchall", c) => last'.ret = List(<<>>)
          /\ IsCall("fetchall", c) =>
                /\ last'.ret = List(_rows[c])
                /\ _rows'[c] = <<>>]_vars

C8_Witness ==
    \E c \in Cursors :
        /\ last.op = "fetchall" /\ last.cur = c /\ last.ret = List(<<>>)
        /\ _rows[c] = <<>> /\ rowcount[c] = 2

\* C9: right after a successful query-type execute rowcount is the number of
\* rows of the response, the buffer holds those rows in order, and the
\* description is present with one descriptor per column of the response.
C9_QueryResultLoaded ==
    \A c \in Cursors :
        (last.op = "execute" /\ last.cur = c /\ last.err = NoErr
            /\ last.arg.sql_type = "query") =>
            LET rs == last.res.json.results[1]
                ncols == IF "columns" \in DOMAIN rs THEN Len(rs.columns) ELSE 0
            IN /\ rowcount[c] = Len(rs.rows)
               /\ Len(_rows[c]) = Len(rs.rows)
               /\ \A i \in 1..Len(rs.rows) :
                      /\ Len(_rows[c][i]) = Len(rs.rows[i])
                      /\ \A j \in 1..Len(rs.rows[i]) : _rows[c][i][j].raw = rs.rows[i][j]
               /\ description[c] # None
               /\ Len(description[c].items) = ncols

C9_Witness ==
    \E c \in Cursors :
        /\ last.op = "execute" /\ last.cur = c /\ last.err = NoErr
        /\ last.arg.sql_type = "query"
        /\ Len(last.res.json.results[1].rows) = 2
        /\ last.res.json.results[1].rows[1] # last.res.json.results[1].rows[2]
        /\ rowcount[c] = 2

\* C10: only a successful execute changes rowcount; fetchone, fetchmany,
\* fetchall, next, iteration, close and a failed execute leave it unchanged.
C10_RowcountFrame ==
    [][\A c \in Cursors :
          /\ rowcount'[c] # rowcount[c] => (IsCall("execute", c) /\ last'.err = NoErr)
          /\ (last'.op \in {"fetchone", "fetchmany", "fetchall", "next", "iter", "close"}
                \/ (last'.op = "execute" /\ last'.err # NoErr)) =>
                rowcount'[c] = rowcount[c]]_vars

C10_Witness ==
    \E c \in Cursors :
        /\ last.op \in {"fetchone", "fetchmany", "fetchall", "next"} /\ last.cur = c
        /\ rowcount[c] = 2 /\ Len(_rows[c]) < 2 /\ description[c] # None

\* C11: in every reachable state rownumber equals the number of rows the
\* fetch operations have returned since the last successful execute, after
\* query-type and exec-type executes alike.
C11_RownumberCountsFetched ==
    \A c \in Cursors : rownumber(data(c)) = fetched[c]

\* C12: an executemany that returns has called execute once per parameter
\* set of a given param_seq, in order and with that parameter set (no call
\* for an empty param_seq), and once without parameters when param_seq is
\* omitted; the cursor then holds the result of the final call only.
C12_ExecutemanyCallsPerSet ==
    (last.op = "executemany" /\ last.err = NoErr) =>
        IF last.arg.param_seq.given
        THEN /\ Len(last.calls) = Len(last.arg.param_seq.seq)
             /\ \A i \in 1..Len(last.calls) :
                    last.calls[i].params = [val |-> last.arg.param_seq.seq[i]]
             /\ Len(last.reqs) = Len(last.arg.param_seq.seq)
        ELSE /\ last.calls = <<[params |-> None]>>
             /\ Len(last.reqs) = 1

\* C13: for a response with status >= 400 execute raises an interface-level
\* error whose code and message are: the integer of the last
\* whitespace-delimited token before the first colon and the trimmed text
\* after it, when the body has a colon; the status and the full body, when
\* the body is non-empty without a colon; the status and "HTTP Error", when
\* the body is empty.
C13_ErrorFromBody ==
    (last.op = "execute" /\ last.res # None /\ last.res.status_code >= 400) =>
        LET body == last.res.text
            i == find_colon(body, 1)
            toks == split_ws(SubSeq(body, 1, i - 1), <<>>, <<>>)
        IN /\ last.err.kind = "InterfaceError"
           /\ IF i > 0
              THEN /\ toks # <<>>
                   /\ IsIntToken(toks[Len(toks)])
                   /\ last.err.code = int_of(toks[Len(toks)])
                   /\ last.err.msg = Str(strip(SubSeq(body, i + 1, Len(body))))
              ELSE IF body # <<>>
                   THEN last.err.code = last.res.status_code /\ last.err.msg = Str(body)
                   ELSE /\ last.err.code = last.res.status_code
                        /\ last.err.msg = Lit("HTTP Error")

\* C14: an execute on a bound cursor with an open Connection issues exactly
\* one request, a POST to query/tuples when the statement is leading
\* whitespace, then select or show in any letter case, then whitespace, and
\* a POST to exec otherwise; no fetch operation issues a request.
SelectShowWords == {"select", "SELECT", "show", "Show"}

IsQueryStatement(q) ==
    \E i \in 1..(Len(q) - 1) :
        /\ \A j \in 1..(i - 1) : q[j] = " "
        /\ q[i] \in SelectShowWords
        /\ q[i + 1] = " "

C14_Dispatch ==
    /\ (last.op = "execute" /\ connection[last.cur] = "conn" /\ _sess = "Session") =>
           last.reqs = << [method |-> "POST",
                           path |-> IF IsQueryStatement(last.arg.query)
                                    THEN "query/tuples" ELSE "exec"] >>
    /\ last.op \in {"fetchone", "fetchmany", "fetchall", "next", "iter"} =>
           last.reqs = <<>>

C14_Witness ==
    /\ last.op = "execute" /\ last.err = NoErr
    /\ last.arg.query = <<" ", "Show", " ", "tables">>
    /\ last.reqs = <<[method |-> "POST", path |-> "query/tuples"]>>
    /\ _rows[last.cur] # <<>>

\* C15: on a closed Connection, Connection.is_connected() and the
\* is_connected() of every cursor return false without a request; so does
\* the is_connected() of a closed cursor, even with the Connection open; and
\* no operation, ping with reconnect included, reopens a closed Connection
\* or rebinds a closed cursor.
C15_ClosedStaysDisconnected ==
    [][/\ (last'.op = "Connection.is_connected" /\ _sess = "None") =>
              (last'.ret = Bool(FALSE) /\ last'.err = NoErr /\ last'.reqs = <<>>)
       /\ \A c \in Cursors :
              /\ (IsCall("is_connected", c) /\ (connection[c] = "None" \/ _sess = "None")) =>
                     (last'.ret = Bool(FALSE) /\ last'.err = NoErr /\ last'.reqs = <<>>)
              /\ connection[c] = "None" => connection'[c] = "None"
       /\ _sess = "None" => _sess' = "None"
       /\ (last'.op = "ping" /\ _sess = "None") =>
              (last'.err = PingErr /\ last'.reqs = <<>>)]_vars

C15_Witness ==
    \E c \in Cursors :
        /\ last.op = "is_connected" /\ last.cur = c
        /\ connection[c] = "conn" /\ _sess = "None"
        /\ last.ret = Bool(FALSE) /\ last.reqs = <<>>

\* C16: Cursor.close() changes only that cursor's Connection reference: the
\* session stays as it was, and every other cursor keeps its binding,
\* description, buffer and rowcount and can still execute; a second
\* Cursor.close() or Connection.close() succeeds and changes nothing.
C16_CloseFrame ==
    [][/\ \A c \in Cursors :
              /\ IsCall("close", c) =>
                    /\ last'.err = NoErr
                    /\ connection'[c] = "None"
                    /\ \A d \in Cursors \ {c} : connection'[d] = connection[d]
                    /\ UNCHANGED <<_sess, autocommit, _rows, description, rowcount>>
                    /\ connection[c] = "None" => UNCHANGED connection
              /\ (IsCall("execute", c) /\ connection[c] = "conn" /\ _sess = "Session") =>
                    (last'.err # ClosedErr /\ Len(last'.reqs) = 1)
       /\ last'.op = "Connection.close" =>
              /\ last'.err = NoErr
              /\ _sess' = "None"
              /\ UNCHANGED <<connection, autocommit, _rows, description, rowcount>>]_vars

C16_Witness ==
    \E c, d \in Cursors :
        /\ c # d
        /\ connection[c] = "None" /\ _rows[c] # <<>>
        /\ connection[d] = "conn" /\ _sess = "Session"
        /\ last.op = "execute" /\ last.cur = d /\ last.err = NoErr /\ _rows[d] # <<>>

\* C17: fetchone makes the description absent exactly when it returns the
\* sentinel; popping a row, the last one included, leaves the description
\* as it was, so a present description becomes absent only by a fetch that
\* finds the buffer empty or by a successful execute.
C17_DescriptionClearedOnSentinel ==
    [][\A c \in Cursors :
          /\ IsCall("fetchone", c) =>
                IF last'.ret = None
                THEN description'[c] = None
                ELSE description'[c] = description[c]
          /\ (description[c] # None /\ description'[c] = None) =>
                \/ (last'.op \in {"fetchone", "next"} /\ last'.cur = c
                       /\ _rows[c] = <<>> /\ last'.ret = None)
                \/ (last'.op \in {"fetchmany", "fetchall"} /\ last'.cur = c
                       /\ _rows'[c] = <<>>)
                \/ (IsCall("execute", c) /\ last'.err = NoErr)]_vars

C17_Witness ==
    \E c \in Cursors :
        /\ last.op = "fetchone" /\ last.cur = c /\ last.ret # None
        /\ _rows[c] = <<>> /\ description[c] # None

\* C18: a successful exec-type execute leaves the description absent and the
\* buffer empty and sets rowcount to the server's affected-row count,
\* whatever the cursor held before.
C18_ExecResult ==
    [][\A c \in Cursors :
          (IsCall("execute", c) /\ last'.err = NoErr /\ last'.arg.sql_type = "exec") =>
              /\ description'[c] = None
              /\ _rows'[c] = <<>>
              /\ rowcount'[c] = last'.res.json.rowsAffected]_vars

C18_Witness ==
    \E c \in Cursors :
        /\ last.op = "execute" /\ last.cur = c /\ last.err = NoErr
        /\ last.arg.sql_type = "exec" /\ last.res.json.rowsAffected = 2
        /\ rowcount[c] = 2 /\ _rows[c] = <<>> /\ description[c] = None

\* C20: a complete iteration over the cursor yields the buffered rows in
\* order and removes none: buffer, description, rowcount and rownumber are
\* unchanged and fetchall still returns the same rows; next() consumes one
\* row as fetchone does.
C20_IterationKeepsBuffer ==
    [][\A c \in Cursors :
          /\ IsCall("iter", c) =>
                /\ last'.ret = List(_rows[c])
                /\ _rows'[c] = _rows[c]
                /\ description'[c] = description[c]
                /\ rowcount'[c] = rowcount[c]
                /\ rowcount'[c] - Len(_rows'[c]) = rowcount[c] - Len(_rows[c])
                /\ fetchall([_rows |-> _rows'[c], description |-> description'[c],
                             rowcount |-> rowcount'[c]]).ret = last'.ret
          /\ IsCall("next", c) =>
                IF _rows[c] # <<>>
                THEN /\ last'.ret = Row(Head(_rows[c]))
                     /\ last'.err = NoErr
                     /\ _rows'[c] = Tail(_rows[c])
                     /\ description'[c] = description[c]
                ELSE /\ last'.err = StopIteration
                     /\ _rows'[c] = <<>>
                     /\ description'[c] = None]_vars

C20_Witness ==
    \E c \in Cursors :
        /\ last.op = "iter" /\ last.cur = c
        /\ Len(last.ret.items) = 2 /\ last.ret.items[1] # last.ret.items[2]
        /\ _rows[c] = last.ret.items /\ description[c] # None

\* C19: nothing guards the buffer between fetchone's non-empty test and its
\* pop: a thread that saw a non-empty buffer goes on to pop whatever the
\* other threads do, and a pop from a buffer emptied meanwhile fails, it
\* returns neither a row nor the sentinel.  With a one-row buffer, two
\* threads can both pass the test and the second pop then fails.
C19_UnguardedPop ==
    [][\A t \in Threads :
          /\ (thr[t].pc = "test" /\ thr'[t] # thr[t] /\ _rows[thr[t].cur] # <<>>) =>
                thr'[t].pc = "pop"
          /\ (thr[t].pc = "pop" /\ thr'[t].pc = "done") =>
                IF _rows[thr[t].cur] = <<>>
                THEN /\ thr'[t].err = IndexError
                     /\ thr'[t].ret = None
                     /\ UNCHANGED <<_rows, description, rowcount>>
                ELSE /\ thr'[t].err = NoErr
                     /\ thr'[t].ret = Row(Head(_rows[thr[t].cur]))
                     /\ _rows'[thr[t].cur] = Tail(_rows[thr[t].cur])]_vars

C19_Witness ==
    \E t, u \in Threads, c \in Cursors :
        /\ t # u /\ thr[t].cur = c /\ thr[u].cur = c /\ rowcount[c] = 1
        /\ thr[t].pc = "done" /\ thr[t].seen = 1 /\ thr[t].ret # None
        /\ thr[u].pc = "done" /\ thr[u].seen = 1 /\ thr[u].err = IndexError

\* C21: an executemany call raises exactly when one of its executes fails
\* (the cursor or the Connection is closed, or the response has status >=
\* 400); it then raises the error of the first failing execute, the i-th,
\* having made i execute calls and issued one request for each (none on a
\* closed resource), so nothing for the remaining parameter sets and no
\* retry; description, buffer and rowcount are the result of the (i-1)-th
\* execute, or those before the call when i = 1.
C21_ExecutemanyStopsAtFailure ==
    [][\A c \in Cursors :
          IsCall("executemany", c) =>
              LET resps == last'.res
                  type == last'.arg.sql_type
                  closed == connection[c] = "None" \/ _sess = "None"
                  Fails(k) == closed \/ resps[k].status_code >= 400
                  path == IF type = "query" THEN "query/tuples" ELSE "exec"
              IN /\ (last'.err # NoErr) <=> (\E k \in DOMAIN resps : Fails(k))
                 /\ last'.err # NoErr =>
                      LET i == CHOOSE k \in DOMAIN resps :
                                   Fails(k) /\ \A j \in 1..(k - 1) : ~Fails(j)
                      IN /\ Len(last'.calls) = i
                         /\ last'.reqs = [j \in 1..(IF closed THEN 0 ELSE i) |->
                                              [method |-> "POST", path |-> path]]
                         /\ last'.err = IF closed THEN ClosedErr
                                        ELSE http_error(resps[i])
                         /\ LET left == IF i = 1 THEN data(c)
                                        ELSE load_result(type, resps[i - 1].json)
                            IN /\ _rows'[c] = left._rows
                               /\ description'[c] = left.description
                               /\ rowcount'[c] = left.rowcount]_vars

\* the first of two parameter sets fails on an open cursor that holds a
\* result; the second set's response would have been a success
C21_Witness ==
    \E c \in Cursors :
        /\ last.op = "executemany" /\ last.cur = c /\ last.err # NoErr
        /\ connection[c] # "None" /\ _sess # "None"
        /\ Len(last.res) = 2 /\ last.res[2].status_code < 400
        /\ Len(last.calls) = 1 /\ Len(last.reqs) = 1
        /\ rowcount[c] > 0 /\ description[c] # None

\* C22: in every state reached by execute (successful or failed),
\* executemany, fetchone, fetchmany, fetchall, next, iteration and close, a
\* cursor whose description is None has an empty row buffer.
C22_RowsHaveDescription ==
    \A c \in Cursors : description[c] = None => _rows[c] = <<>>

\* a query result of two rows was loaded and a fetchmany has drained it
C22_Witness ==
    \E c \in Cursors :
        /\ last.op = "fetchmany" /\ last.cur = c /\ Len(last.ret.items) = 1
        /\ rowcount[c] = 2 /\ description[c] = None /\ _rows[c] = <<>>

====
